---- MODULE Spec2Model ----
(***************************************************************************)
(* chessman: Piece, Square (src/src/lib.rs) and Board with its FEN decoder *)
(* and Display rendering (src/src/board.rs).                               *)
(*                                                                         *)
(* A char is its Unicode scalar value (a natural number); a &str / String  *)
(* is a sequence of chars.  Option<T> is None / Some(v), Result<T,E> is    *)
(* Ok(v) / Err(e); a call that panics (unwrap on None) yields Panic.       *)
(***************************************************************************)
EXTENDS Integers, Sequences, FiniteSets, TLC

VARIABLES call, ret, done, base, board, last, nwrites, out, input, edits, result

vars == <<call, ret, done, base, board, last, nwrites, out, input, edits, result>>

(***************************************************************************)
(* Characters and strings                                                  *)
(***************************************************************************)

\* The printable ASCII characters, U+0020 .. U+007E, in code-point order
\* (the double quote, the backslash and the backtick are spelled out).
Ascii ==
    <<" ", "!", "QUOTE", "#", "$", "%", "&", "'", "(", ")", "*", "+", ",", "-", ".", "/",
      "0", "1", "2", "3", "4", "5", "6", "7", "8", "9", ":", ";", "<", "=", ">", "?",
      "@", "A", "B", "C", "D", "E", "F", "G", "H", "I", "J", "K", "L", "M", "N", "O",
      "P", "Q", "R", "S", "T", "U", "V", "W", "X", "Y", "Z", "[", "BACKSLASH", "]", "^", "_",
      "BACKTICK", "a", "b", "c", "d", "e", "f", "g", "h", "i", "j", "k", "l", "m", "n", "o",
      "p", "q", "r", "s", "t", "u", "v", "w", "x", "y", "z", "{", "|", "}", "~">>

OrdTable == [c \in {Ascii[i] : i \in 1..Len(Ascii)} |->
                31 + (CHOOSE i \in 1..Len(Ascii) : Ascii[i] = c)]

\* The scalar value of a char literal: Ord("a") is the char a as u32.
Ord(c) == OrdTable[c]

\* A string literal, written one character per element.
Str(t) == [i \in 1..Len(t) |-> Ord(t[i])]

\* The number of bytes of the UTF-8 encoding of a char (char::len_utf8).
len_utf8(c) == IF c < 128 THEN 1 ELSE IF c < 2048 THEN 2 ELSE IF c < 65536 THEN 3 ELSE 4

RECURSIVE str_len(_)
\* str::len: the length of a string in bytes.
str_len(s) == IF s = <<>> THEN 0 ELSE len_utf8(Head(s)) + str_len(Tail(s))

\* s.chars().nth(n): the n-th char (from 0), None past the end.
None == [some |-> FALSE]
Some(v) == [some |-> TRUE, v |-> v]
chars_nth(s, n) == IF n < Len(s) THEN Some(s[n + 1]) ELSE None

Ok(v) == [tag |-> "Ok", v |-> v]
Err(e) == [tag |-> "Err", e |-> e]
Panic == [tag |-> "Panic"]

\* u8 arithmetic keeps 8 bits.
U8(x) == x % 256

\* matches!(c, lo..=hi) on chars.
InRange(c, lo, hi) == Ord(lo) <= c /\ c <= Ord(hi)

(***************************************************************************)
(* Piece                                                                   *)
(***************************************************************************)

PieceColor == {"White", "Black"}
PieceKind == {"King", "Queen", "Rook", "Bishop", "Knight", "Pawn"}

Piece_new(color, kind) == [color |-> color, kind |-> kind]

Pieces == {Piece_new(c, k) : c \in PieceColor, k \in PieceKind}

Piece_from_fen(fen) ==
    CASE fen = Ord("K") -> Some(Piece_new("White", "King"))
      [] fen = Ord("k") -> Some(Piece_new("Black", "King"))
      [] fen = Ord("Q") -> Some(Piece_new("White", "Queen"))
      [] fen = Ord("q") -> Some(Piece_new("Black", "Queen"))
      [] fen = Ord("R") -> Some(Piece_new("White", "Rook"))
      [] fen = Ord("r") -> Some(Piece_new("Black", "Rook"))
      [] fen = Ord("B") -> Some(Piece_new("White", "Bishop"))
      [] fen = Ord("b") -> Some(Piece_new("Black", "Bishop"))
      [] fen = Ord("N") -> Some(Piece_new("White", "Knight"))
      [] fen = Ord("n") -> Some(Piece_new("Black", "Knight"))
      [] fen = Ord("P") -> Some(Piece_new("White", "Pawn"))
      [] fen = Ord("p") -> Some(Piece_new("Black", "Pawn"))
      [] OTHER -> None

Piece_to_fen_lower(p) ==
    CASE p.kind = "King" -> Ord("k")
      [] p.kind = "Queen" -> Ord("q")
      [] p.kind = "Rook" -> Ord("r")
      [] p.kind = "Bishop" -> Ord("b")
      [] p.kind = "Knight" -> Ord("n")
      [] p.kind = "Pawn" -> Ord("p")

Piece_to_fen(p) ==
    CASE p.color = "White" /\ p.kind = "King" -> Ord("K")
      [] p.color = "Black" /\ p.kind = "King" -> Ord("k")
      [] p.color = "White" /\ p.kind = "Queen" -> Ord("Q")
      [] p.color = "Black" /\ p.kind = "Queen" -> Ord("q")
      [] p.color = "White" /\ p.kind = "Rook" -> Ord("R")
      [] p.color = "Black" /\ p.kind = "Rook" -> Ord("r")
      [] p.color = "White" /\ p.kind = "Bishop" -> Ord("B")
      [] p.color = "Black" /\ p.kind = "Bishop" -> Ord("b")
      [] p.color = "White" /\ p.kind = "Knight" -> Ord("N")
      [] p.color = "Black" /\ p.kind = "Knight" -> Ord("n")
      [] p.color = "White" /\ p.kind = "Pawn" -> Ord("P")
      [] p.color = "Black" /\ p.kind = "Pawn" -> Ord("p")

(***************************************************************************)
(* Square                                                                  *)
(***************************************************************************)

\* Square(u8): a square is the u8 it wraps.
Square_new_or(rank, file) ==
    IF rank < 8 \/ file < 8 THEN Some(U8(U8(rank * 8) + file)) ELSE None

Square_new(rank, file) ==
    IF rank < 8 /\ file < 8 THEN Some(U8(U8(rank * 8) + file)) ELSE None

Square_file(sq) == sq % 8

Square_rank(sq) == sq \div 8

Square_index(sq) == sq

\* Some(x).unwrap() is x; None.unwrap() panics.
ParseSquareError == "ParseSquareError"

Square_from_str(s) ==
    IF str_len(s) # 2 THEN Err(ParseSquareError)
    ELSE LET file_opt == chars_nth(s, 0)
             rank_opt == chars_nth(s, 1)
         IN  IF ~file_opt.some \/ ~rank_opt.some THEN Panic
             ELSE LET file_char == file_opt.v
                      rank_char == rank_opt.v
                  IN  IF ~InRange(file_char, "a", "h") THEN Err(ParseSquareError)
                      ELSE IF ~InRange(rank_char, "1", "8") THEN Err(ParseSquareError)
                      ELSE LET file == U8(U8(file_char) - U8(Ord("a")))
                               rank == U8(U8(rank_char) - U8(Ord("1")))
                               square == Square_new(rank, file)
                           IN  IF square.some THEN Ok(square.v)
                               ELSE Err(ParseSquareError)

Square_fmt_swapped(sq) ==
    << U8(Square_rank(sq) + Ord("a")), U8(Square_file(sq) + Ord("1")) >>

\* Display for Square: the text written to the formatter.
Square_fmt(sq) ==
    << U8(Square_file(sq) + Ord("a")), U8(Square_rank(sq) + Ord("1")) >>

(***************************************************************************)
(* Board                                                                   *)
(***************************************************************************)

\* squares: [Option<Piece>; 64], indexed 0..63.
Board_new == [squares |-> [i \in 0..63 |-> None], side_to_move |-> "White"]

piece_at(b, square) == b.squares[Square_index(square)]

side_to_move(b) == b.side_to_move

set_piece_at_next(b, square, piece) ==
    [b EXCEPT !.squares[(Square_index(square) + 1) % 64] = piece]

set_piece_at(b, square, piece) ==
    [b EXCEPT !.squares[Square_index(square)] = piece]

\* Square::from_rank_and_file, as board.rs calls the constructor Square::new.
from_rank_and_file(rank, file) == Square_new(rank, file)

back_rank_king_first ==
    <<"Rook", "Knight", "Bishop", "King", "Queen", "Bishop", "Knight", "Rook">>

back_rank == <<"Rook", "Knight", "Bishop", "Queen", "King", "Bishop", "Knight", "Rook">>

\* One iteration of the loop of startpos: the four pieces of one file.
startpos_file(b, file, kind) ==
    LET b1 == set_piece_at(b, from_rank_and_file(0, file).v, Some(Piece_new("White", kind)))
        b2 == set_piece_at(b1, from_rank_and_file(1, file).v, Some(Piece_new("White", "Pawn")))
        b3 == set_piece_at(b2, from_rank_and_file(7, file).v, Some(Piece_new("Black", kind)))
    IN  set_piece_at(b3, from_rank_and_file(6, file).v, Some(Piece_new("Black", "Pawn")))

RECURSIVE startpos_loop(_, _)
startpos_loop(b, i) ==
    IF i > Len(back_rank) THEN b
    ELSE startpos_loop(startpos_file(b, U8(i - 1), back_rank[i]), i + 1)

startpos == startpos_loop(Board_new, 1)

RECURSIVE fmt_uint(_)
\* Display of an unsigned integer: its decimal digits.
fmt_uint(n) ==
    IF n < 10 THEN <<Ord("0") + n>> ELSE fmt_uint(n \div 10) \o <<Ord("0") + (n % 10)>>

\* map_or over the Option at a square: the filler or the piece letter.
fmt_cell(b, rank, file) ==
    LET o == piece_at(b, from_rank_and_file(rank, file).v)
    IN  IF o.some THEN Piece_to_fen(o.v) ELSE Ord(".")

RECURSIVE fmt_files(_, _, _)
fmt_files(b, rank, file) ==
    IF file >= 8 THEN <<>>
    ELSE <<fmt_cell(b, rank, file), Ord(" ")>> \o fmt_files(b, rank, file + 1)

Newline == <<10>>

RECURSIVE fmt_ranks_up(_, _)
fmt_ranks_up(b, n) ==
    IF n = 0 THEN <<>>
    ELSE LET rank == 8 - n
         IN  fmt_uint(rank + 1) \o <<Ord(" ")>> \o fmt_files(b, rank, 0) \o Newline
                 \o fmt_ranks_up(b, n - 1)

RECURSIVE fmt_ranks(_, _)
\* for rank in (0..8).rev(): n ranks are still to be written, rank n-1 next.
fmt_ranks(b, n) ==
    IF n = 0 THEN <<>>
    ELSE LET rank == n - 1
         IN  fmt_uint(rank + 1) \o <<Ord(" ")>> \o fmt_files(b, rank, 0) \o Newline
                 \o fmt_ranks(b, n - 1)

Legend == Str(<<" ", " ", "a", " ", "b", " ", "c", " ", "d", " ", "e", " ", "f", " ", "g", " ", "h">>)

\* Display for Board: the text written to the formatter.
Board_fmt(b) == fmt_ranks(b, 8) \o Legend \o Newline

(***************************************************************************)
(* FEN decoding: impl FromStr for Board                                    *)
(***************************************************************************)

\* char::is_whitespace (the Unicode White_Space property), as used by
\* str::split_whitespace.
is_whitespace(c) ==
    \/ c \in 9..13
    \/ c \in {32, 133, 160, 5760, 8232, 8233, 8239, 8287, 12288}
    \/ c \in 8192..8202

RECURSIVE split_whitespace_from(_, _, _, _)
\* The fields of s from position i on; cur is the field being read.
split_whitespace_from(s, i, cur, acc) ==
    IF i > Len(s) THEN (IF cur = <<>> THEN acc ELSE Append(acc, cur))
    ELSE IF is_whitespace(s[i])
         THEN split_whitespace_from(s, i + 1, <<>>,
                                    IF cur = <<>> THEN acc ELSE Append(acc, cur))
         ELSE split_whitespace_from(s, i + 1, Append(cur, s[i]), acc)

\* s.split_whitespace().collect(): the non-empty maximal runs of non-whitespace.
split_whitespace(s) == split_whitespace_from(s, 1, <<>>, <<>>)

RECURSIVE split_from(_, _, _, _, _)
split_from(s, sep, i, cur, acc) ==
    IF i > Len(s) THEN Append(acc, cur)
    ELSE IF s[i] = sep
         THEN split_from(s, sep, i + 1, <<>>, Append(acc, cur))
         ELSE split_from(s, sep, i + 1, Append(cur, s[i]), acc)

\* s.split(sep).collect(): the pieces between separators, empty ones included.
split(s, sep) == split_from(s, sep, 1, <<>>, <<>>)

is_digit_1_8(c) == InRange(c, "1", "8")

to_digit_from_one(c) == c - Ord("1")

\* c.to_digit(10).unwrap() on a decimal digit.
to_digit(c) == c - Ord("0")

\* ParseFenError(String): the diagnostic, as its format string and its argument
\* (a rank number or a char; 0 where the message has none).
ParseFenError(msg, arg) == [msg |-> msg, arg |-> arg]

RECURSIVE file_count_from(_, _)
\* The width of a rank group from position i on (the first loop of from_str).
file_count_from(rank, i) ==
    IF i > Len(rank) THEN 0
    ELSE (IF is_digit_1_8(rank[i]) THEN to_digit(rank[i]) ELSE 1)
             + file_count_from(rank, i + 1)

file_count(rank) == file_count_from(rank, 1)

check_widths_skip(ranks, rank_index) == Ok(TRUE)

RECURSIVE check_widths(_, _)
\* The width pass over ranks[rank_index + 1 ..]: the first failing group, if any.
check_widths(ranks, rank_index) ==
    IF rank_index >= Len(ranks) THEN Ok(TRUE)
    ELSE IF file_count(ranks[rank_index + 1]) # 8
         THEN Err(ParseFenError("Invalid FEN: Rank {} does not expand to 8 squares",
                                8 - rank_index))
         ELSE check_widths(ranks, rank_index + 1)

place_square_same_rank(rank_index, file_index) ==
    from_rank_and_file(U8(rank_index), U8(file_index))

\* The square a piece of group rank_index at cursor file_index is placed on.
place_square(rank_index, file_index) ==
    from_rank_and_file(U8(7 - U8(rank_index)), U8(file_index))

\* One piece placement of the walk, kept as history: the group index and the
\* file cursor it was made at, their casts to u8, the difference
\* 7 - rank_index as u8 before it is fitted to u8, and the slot written.
Placement(rank_index, file_index, square) ==
    [rank_index |-> rank_index, file_index |-> file_index,
     rank_as_u8 |-> U8(rank_index), rank |-> 7 - U8(rank_index),
     file_as_u8 |-> U8(file_index), index |-> Square_index(square)]

\* An error of the walk, with the placements made before it.
WalkErr(e, writes) == [tag |-> "Err", e |-> e, writes |-> writes]

RECURSIVE place_rank_no_advance(_, _, _, _, _, _)
place_rank_no_advance(b, writes, rank_index, rank_str, i, file_index) ==
    IF i > Len(rank_str)
    THEN Ok([board |-> b, file_index |-> file_index, writes |-> writes])
    ELSE LET c == rank_str[i]
         IN  IF file_index > 7
             THEN WalkErr(ParseFenError("Invalid FEN: Too many squares in rank {}",
                                        8 - rank_index), writes)
             ELSE IF is_digit_1_8(c)
             THEN place_rank_no_advance(b, writes, rank_index, rank_str, i + 1,
                                        file_index + to_digit(c))
             ELSE LET piece == Piece_from_fen(c)
                      square == place_square(rank_index, file_index)
                  IN  IF ~piece.some
                      THEN WalkErr(ParseFenError("Invalid FEN: Unknown piece character '{}'", c),
                                   writes)
                      ELSE IF ~square.some
                      THEN WalkErr(ParseFenError("Invalid FEN: Square out of bounds", 0), writes)
                      ELSE place_rank_no_advance(
                               set_piece_at(b, square.v, Some(piece.v)),
                               Append(writes, Placement(rank_index, file_index, square.v)),
                               rank_index, rank_str, i + 1, file_index)

RECURSIVE place_rank(_, _, _, _, _, _)
\* The inner loop of the placement pass from char i of rank_str on; yields the
\* board and the file cursor after the group, or the error.  writes is the
\* history of the placements made so far in the decode.
place_rank(b, writes, rank_index, rank_str, i, file_index) ==
    IF i > Len(rank_str)
    THEN Ok([board |-> b, file_index |-> file_index, writes |-> writes])
    ELSE LET c == rank_str[i]
         IN  IF file_index > 7
             THEN WalkErr(ParseFenError("Invalid FEN: Too many squares in rank {}",
                                        8 - rank_index), writes)
             ELSE IF is_digit_1_8(c)
             THEN place_rank(b, writes, rank_index, rank_str, i + 1,
                             file_index + to_digit(c))
             ELSE LET piece == Piece_from_fen(c)
                      square == place_square(rank_index, file_index)
                  IN  IF ~piece.some
                      THEN WalkErr(ParseFenError("Invalid FEN: Unknown piece character '{}'", c),
                                   writes)
                      ELSE IF ~square.some
                      THEN WalkErr(ParseFenError("Invalid FEN: Square out of bounds", 0), writes)
                      ELSE place_rank(set_piece_at(b, square.v, Some(piece.v)),
                                      Append(writes, Placement(rank_index, file_index, square.v)),
                                      rank_index, rank_str, i + 1, file_index + 1)

RECURSIVE place_ranks(_, _, _, _)
\* The placement pass over ranks[rank_index + 1 ..].
place_ranks(b, writes, ranks, rank_index) ==
    IF rank_index >= Len(ranks) THEN Ok([board |-> b, writes |-> writes])
    ELSE LET r == place_rank(b, writes, rank_index, ranks[rank_index + 1], 1, 0)
         IN  IF r.tag = "Err" THEN r
             ELSE IF r.v.file_index # 8
             THEN WalkErr(ParseFenError("Invalid FEN: Rank {} does not end on file 8",
                                        8 - rank_index), r.v.writes)
             ELSE place_ranks(r.v.board, r.v.writes, ranks, rank_index + 1)

side_from_token_any(b, token) ==
    IF token = Str(<<"b">>) THEN Ok([b EXCEPT !.side_to_move = "Black"])
    ELSE Ok([b EXCEPT !.side_to_move = "White"])

\* The match on parts[1].
side_from_token(b, token) ==
    IF token = Str(<<"w">>) THEN Ok([b EXCEPT !.side_to_move = "White"])
    ELSE IF token = Str(<<"b">>) THEN Ok([b EXCEPT !.side_to_move = "Black"])
    ELSE Err(ParseFenError("Invalid FEN: Invalid side to move", 0))

Traced(res, writes) == [result |-> res, writes |-> writes]

from_str_place_first(s) ==
    LET parts == split_whitespace(s)
    IN  IF Len(parts) < 2
        THEN Traced(Err(ParseFenError("Invalid FEN: Not enough parts", 0)), <<>>)
        ELSE LET ranks == split(parts[1], Ord("/"))
             IN  IF Len(ranks) # 8
                 THEN Traced(Err(ParseFenError("Invalid FEN: Incorrect number of ranks", 0)),
                             <<>>)
                 ELSE LET placed == place_ranks(Board_new, <<>>, ranks, 0)
                      IN  IF placed.tag = "Err"
                          THEN Traced(Err(placed.e), placed.writes)
                          ELSE LET w == check_widths(ranks, 0)
                               IN  IF w.tag = "Err" THEN Traced(w, placed.v.writes)
                                   ELSE Traced(side_from_token(placed.v.board, parts[2]),
                                               placed.v.writes)

\* from_str with the history of its placements: what it returns, and the
\* placements it made on the way, also when it returns an error.
from_str(s) ==
    LET parts == split_whitespace(s)
    IN  IF Len(parts) < 2
        THEN Traced(Err(ParseFenError("Invalid FEN: Not enough parts", 0)), <<>>)
        ELSE LET ranks == split(parts[1], Ord("/"))
             IN  IF Len(ranks) # 8
                 THEN Traced(Err(ParseFenError("Invalid FEN: Incorrect number of ranks", 0)),
                             <<>>)
                 ELSE LET w == check_widths(ranks, 0)
                      IN  IF w.tag = "Err" THEN Traced(w, <<>>)
                          ELSE LET placed == place_ranks(Board_new, <<>>, ranks, 0)
                               IN  IF placed.tag = "Err"
                                   THEN Traced(Err(placed.e), placed.writes)
                                   ELSE Traced(side_from_token(placed.v.board, parts[2]),
                                               placed.v.writes)

Board_from_str(s) == from_str(s).result

Board_from_fen(fen) == Board_from_str(fen)

(***************************************************************************)
(* Specification Spec: one call of a function of Piece or Square.          *)
(* The initial state holds the call and its arguments; the action of the   *)
(* called function stores what it returns in ret.                          *)
(***************************************************************************)

U8Max == 255
MaxChar == 300
MaxStrLen == 3

\* The characters of the texts given to Square::from_str: the file letters and
\* rank digits, their neighbours in code-point order, an uppercase letter, a
\* space, and U+00E9, whose UTF-8 encoding has two bytes.
SquareAlphabet ==
    {Ord(c) : c \in {"a", "b", "c", "d", "e", "f", "g", "h",
                     "1", "2", "3", "4", "5", "6", "7", "8",
                     "BACKTICK", "i", "0", "9", "A", " "}} \cup {233}

Strings(alphabet, n) == UNION {[1..k -> alphabet] : k \in 0..n}

\* The states that no operation of the specification at hand touches.
BoardIdle ==
    /\ base = <<>>
    /\ board = <<>>
    /\ last = <<>>
    /\ nwrites = 0
    /\ out = <<>>

FenIdle ==
    /\ input = <<>>
    /\ edits = 0
    /\ result = None

TypesIdle ==
    /\ call = [op |-> "none"]
    /\ ret = None
    /\ done = FALSE

Init ==
    /\ \/ \E rank \in 0..U8Max, file \in 0..U8Max :
              call = [op |-> "Square_new", rank |-> rank, file |-> file]
       \/ \E s \in Strings(SquareAlphabet, MaxStrLen) :
              call = [op |-> "Square_from_str", s |-> s]
       \/ \E sq \in 0..63 : call = [op |-> "Square_fmt", sq |-> sq]
       \/ \E c \in 0..MaxChar : call = [op |-> "Piece_from_fen", fen |-> c]
       \/ \E p \in Pieces : call = [op |-> "Piece_to_fen", p |-> p]
    /\ ret = None
    /\ done = FALSE
    /\ BoardIdle
    /\ FenIdle

Return(v) ==
    /\ ret' = v
    /\ done' = TRUE
    /\ UNCHANGED <<call, base, board, last, nwrites, out, input, edits, result>>

CallSquareNew ==
    /\ ~done /\ call.op = "Square_new"
    /\ Return(Square_new(call.rank, call.file))

CallSquareFromStr ==
    /\ ~done /\ call.op = "Square_from_str"
    /\ Return(Square_from_str(call.s))

CallSquareFmt ==
    /\ ~done /\ call.op = "Square_fmt"
    /\ Return(Square_fmt(call.sq))

CallPieceFromFen ==
    /\ ~done /\ call.op = "Piece_from_fen"
    /\ Return(Piece_from_fen(call.fen))

CallPieceToFen ==
    /\ ~done /\ call.op = "Piece_to_fen"
    /\ Return(Piece_to_fen(call.p))

Next ==
    \/ CallSquareNew
    \/ CallSquareFromStr
    \/ CallSquareFmt
    \/ CallPieceFromFen
    \/ CallPieceToFen

Spec == Init /\ [][Next]_vars

(***************************************************************************)
(* Claims about Square and Piece                                           *)
(***************************************************************************)

Returned(op) == done /\ call.op = op

\* C4: Square::new(rank, file) returns a square if and only if rank <= 7 and
\* file <= 7, for every pair of u8 values; the square returned has that rank,
\* that file and the index rank*8 + file (no wrap of the u8 arithmetic), and
\* (rank, file) -> index is a bijection from [0,7]x[0,7] onto [0,63].
C4_SquareNew ==
    Returned("Square_new") =>
        /\ ret.some <=> (call.rank <= 7 /\ call.file <= 7)
        /\ ret.some =>
              /\ Square_rank(ret.v) = call.rank
              /\ Square_file(ret.v) = call.file
              /\ Square_index(ret.v) = call.rank * 8 + call.file
              /\ Square_index(ret.v) \in 0..63
              /\ \A r \in 0..7, f \in 0..7 :
                     Square_new(r, f) = ret => (r = call.rank /\ f = call.file)
              /\ {Square_index(Square_new(r, f).v) : r \in 0..7, f \in 0..7} = 0..63

C4_Witness ==
    /\ Returned("Square_new") /\ call.rank = 7 /\ call.file = 7
    /\ ret = Some(63)

FenLetters == {Ord(c) : c \in {"K", "Q", "R", "B", "N", "P", "k", "q", "r", "b", "n", "p"}}

UpperLetters == {Ord(c) : c \in {"K", "Q", "R", "B", "N", "P"}}

\* C5: Piece::from_fen and Piece::to_fen are inverses of each other on the 12
\* pieces and the 12 letters KQRBNPkqrbnp, uppercase being White and lowercase
\* Black; from_fen returns None for every other character.
C5_PieceFenInverse ==
    /\ Returned("Piece_to_fen") =>
          /\ Piece_from_fen(ret) = Some(call.p)
          /\ ret \in FenLetters
          /\ Cardinality(Pieces) = 12
    /\ Returned("Piece_from_fen") =>
          IF call.fen \in FenLetters
          THEN /\ ret.some
               /\ ret.v \in Pieces
               /\ Piece_to_fen(ret.v) = call.fen
               /\ ret.v.color = (IF call.fen \in UpperLetters THEN "White" ELSE "Black")
          ELSE ret = None

C5_Witness ==
    /\ Returned("Piece_from_fen") /\ call.fen = Ord("q")
    /\ ret = Some(Piece_new("Black", "Queen"))

\* A text of exactly two characters, a file letter a..h and a rank digit 1..8.
IsAlgebraic(s) ==
    /\ Len(s) = 2
    /\ InRange(s[1], "a", "h")
    /\ InRange(s[2], "1", "8")

\* C6: Square::from_str returns Err(ParseSquareError), and does not panic, for
\* every text that is not a file letter a..h followed by a rank digit 1..8,
\* whatever its length in characters or bytes.
C6_FromStrNeverPanics ==
    (Returned("Square_from_str") /\ ~IsAlgebraic(call.s)) => ret = Err(ParseSquareError)

\* C7: rendering a square gives the letter a + file and the digit 1 + rank,
\* and parsing that text gives the square back; parsing a file letter and a
\* rank digit gives the square of that file and rank, which renders to the
\* same text.
C7_SquareTextRoundTrip ==
    /\ Returned("Square_fmt") =>
          /\ ret = <<Ord("a") + Square_file(call.sq), Ord("1") + Square_rank(call.sq)>>
          /\ Square_from_str(ret) = Ok(call.sq)
    /\ (Returned("Square_from_str") /\ IsAlgebraic(call.s)) =>
          /\ ret.tag = "Ok"
          /\ Square_file(ret.v) = call.s[1] - Ord("a")
          /\ Square_rank(ret.v) = call.s[2] - Ord("1")
          /\ Square_fmt(ret.v) = call.s

C7_Witness ==
    /\ Returned("Square_fmt") /\ call.sq = 28
    /\ ret = Str(<<"e", "4">>)
    /\ Square_from_str(ret) = Ok(28)

(***************************************************************************)
(* Specification SpecBoard: a board made by Board::new() or                *)
(* Board::startpos(), then written with set_piece_at and rendered.         *)
(* base is the board as constructed; last records, per slot, the value of  *)
(* the last set_piece_at on it (history, not program state).               *)
(***************************************************************************)

MaxWrites == 3

\* The squares written: the corners and two inner squares, no two of them
\* mirror images of each other in rank and file.
WriteSquares ==
    {from_rank_and_file(rf[1], rf[2]).v :
        rf \in {<<0, 0>>, <<0, 7>>, <<7, 0>>, <<7, 7>>, <<3, 4>>, <<1, 3>>}}

WriteValues ==
    {None, Some(Piece_new("White", "King")), Some(Piece_new("Black", "Pawn"))}

NeverWritten == [written |-> FALSE]

InitBoard ==
    /\ base \in {Board_new, startpos}
    /\ board = base
    /\ last = [i \in 0..63 |-> NeverWritten]
    /\ nwrites = 0
    /\ out = <<>>
    /\ TypesIdle
    /\ FenIdle

SetPieceAt ==
    /\ nwrites < MaxWrites
    /\ \E square \in WriteSquares, piece \in WriteValues :
          /\ board' = set_piece_at(board, square, piece)
          /\ last' = [last EXCEPT ![Square_index(square)] = [written |-> TRUE, v |-> piece]]
    /\ nwrites' = nwrites + 1
    /\ out' = <<>>
    /\ UNCHANGED <<call, ret, done, base, input, edits, result>>

Fmt ==
    /\ out = <<>>
    /\ out' = Board_fmt(board)
    /\ UNCHANGED <<call, ret, done, base, board, last, nwrites, input, edits, result>>

NextBoard ==
    \/ SetPieceAt
    \/ Fmt

SpecBoard == InitBoard /\ [][NextBoard]_vars

(***************************************************************************)
(* Claims about Board state and rendering                                  *)
(***************************************************************************)

\* C8: after any sequence of set_piece_at calls on Board::new() (all 64
\* slots empty, White to move) the board has its 64 slots, every slot holds
\* the value last written to it, or what it held at construction if it was
\* never written, and side_to_move is unchanged.
C8_SetPieceAtFrame ==
    /\ DOMAIN board.squares = 0..63
    /\ \A s \in 0..63 :
          piece_at(board, s) = IF last[s].written THEN last[s].v ELSE piece_at(base, s)
    /\ side_to_move(board) = side_to_move(base)
    /\ base = Board_new =>
          /\ side_to_move(board) = "White"
          /\ \A s \in 0..63 : ~last[s].written => piece_at(board, s) = None

C8_Witness ==
    /\ base = Board_new /\ nwrites = 3
    /\ last[0].written /\ last[0].v = None /\ piece_at(board, 0) = None
    /\ piece_at(board, 63) = Some(Piece_new("Black", "Pawn"))
    /\ ~last[28].written /\ piece_at(board, 28) = None

\* The text of one line of the rendering: the rank number and eight cells.
RankLine(digit, cells) ==
    <<Ord(digit), Ord(" ")>> \o
        [i \in 1..16 |-> IF i % 2 = 1 THEN Ord(cells[(i + 1) \div 2]) ELSE Ord(" ")]

EmptyCells == <<".", ".", ".", ".", ".", ".", ".", ".">>

StartposText ==
    RankLine("8", <<"r", "n", "b", "q", "k", "b", "n", "r">>) \o Newline \o
    RankLine("7", <<"p", "p", "p", "p", "p", "p", "p", "p">>) \o Newline \o
    RankLine("6", EmptyCells) \o Newline \o
    RankLine("5", EmptyCells) \o Newline \o
    RankLine("4", EmptyCells) \o Newline \o
    RankLine("3", EmptyCells) \o Newline \o
    RankLine("2", <<"P", "P", "P", "P", "P", "P", "P", "P">>) \o Newline \o
    RankLine("1", <<"R", "N", "B", "Q", "K", "B", "N", "R">>) \o Newline \o
    Legend \o Newline

\* C9: the rendering of a board is 9 newline-terminated lines; line k (0..7)
\* is the rank number 8-k, a space, and for files a..h the FEN letter of the
\* piece at (rank index 7-k, file), or a dot, each followed by a space; the
\* ninth line is the legend.  startpos() renders with Black on line 8.
C9_Display ==
    out # <<>> =>
        /\ Len(out) = 8 * 19 + 18
        /\ {i \in 1..Len(out) : out[i] = Newline[1]} = {19 * k : k \in 1..8} \cup {Len(out)}
        /\ SubSeq(out, 8 * 19 + 1, Len(out) - 1) = Legend
        /\ \A k \in 0..7 :
              LET line == SubSeq(out, 19 * k + 1, 19 * k + 18)
              IN  /\ line[1] = Ord("0") + (8 - k)
                  /\ line[2] = Ord(" ")
                  /\ \A f \in 0..7 :
                        LET o == board.squares[(7 - k) * 8 + f]
                        IN  /\ line[3 + 2 * f] =
                                  (IF o.some THEN Piece_to_fen(o.v) ELSE Ord("."))
                            /\ line[4 + 2 * f] = Ord(" ")
        /\ board = startpos => out = StartposText

C9_Witness ==
    /\ base = startpos /\ nwrites = 0
    /\ out = StartposText

(***************************************************************************)
(* The FEN-text encoder of a board, of which the repository holds no code: *)
(* ranks 8 down to 1, files a to h, a digit for each run of empty files,   *)
(* a slash between ranks and none at the end.                              *)
(***************************************************************************)

RECURSIVE encode_rank(_, _, _, _)
encode_rank(b, rank, file, run) ==
    LET flush == IF run > 0 THEN <<Ord("0") + run>> ELSE <<>>
    IN  IF file >= 8 THEN flush
        ELSE LET o == b.squares[rank * 8 + file]
             IN  IF o.some
                 THEN flush \o <<Piece_to_fen(o.v)>> \o encode_rank(b, rank, file + 1, 0)
                 ELSE encode_rank(b, rank, file + 1, run + 1)

RECURSIVE encode_ranks(_, _)
\* n ranks are still to be written, rank n-1 next.
encode_ranks(b, n) ==
    IF n = 0 THEN <<>>
    ELSE encode_rank(b, n - 1, 0, 0) \o (IF n > 1 THEN <<Ord("/")>> ELSE <<>>)
             \o encode_ranks(b, n - 1)

Board_to_fen(b) == encode_ranks(b, 8)

(***************************************************************************)
(* Specification SpecFen: a text is given to Board::from_str.  The texts   *)
(* are the inputs of the tests of board.rs and positions with further      *)
(* fields, some of them changed by at most MaxEdits single-character       *)
(* edits, and the encoding of startpos().  After the call, last holds the  *)
(* placements the decode made (history, not program state).                *)
(***************************************************************************)

MaxEdits == 1

StartFen ==
    Str(<<"r", "n", "b", "q", "k", "b", "n", "r", "/",
          "p", "p", "p", "p", "p", "p", "p", "p", "/",
          "8", "/", "8", "/", "8", "/", "8", "/",
          "P", "P", "P", "P", "P", "P", "P", "P", "/",
          "R", "N", "B", "Q", "K", "B", "N", "R", " ", "w">>)

CustomFen ==
    Str(<<"8", "/", "8", "/", "8", "/", "3", "k", "4", "/",
          "8", "/", "8", "/", "4", "K", "3", "/", "8", " ", "b">>)

EmptyRanks ==
    Str(<<"8", "/", "8", "/", "8", "/", "8", "/", "8", "/", "8", "/", "8", "/", "8">>)

\* A text with an unknown piece character in its top group and a side token
\* that is neither w nor b.
FaultyFen ==
    Str(<<"7", "X", "/", "8", "/", "8", "/", "8", "/", "8", "/", "8", "/", "8", "/", "8",
          " ", "x">>)

\* The texts that are edited.
EditTemplates ==
    { CustomFen,
      Str(<<"8", "/", "8", "/", "8", "/", "8", "/", "8", "/", "8", "/", "8", "/",
            "7", "X", " ", "w">>),
      EmptyRanks \o Str(<<" ", "w", " ", "-">>),
      FaultyFen,
      <<>> }

\* The texts that are decoded as they are; 9 is a tab.
FixedTexts ==
    { StartFen,
      Str(<<"i", "n", "v", "a", "l", "i", "d", "_", "f", "e", "n", "_",
            "s", "t", "r", "i", "n", "g">>),
      Str(<<"8", "/", "8", "/", "8", "/", "8", "/", "8", "/", "8", "/", "8", " ", "w">>),
      EmptyRanks \o Str(<<" ", "x">>),
      Str(<<"9", "/", "8", "/", "8", "/", "8", "/", "8", "/", "8", "/", "8", "/", "8",
            " ", "w">>),
      <<9>> \o CustomFen \o <<9>> \o Str(<<" ", "K", "Q", "k", "q", " ", "-", " ", "0", " ", "1">>),
      Str(<<"7", "k", "/", "6", "P", "1", "/", "5", "N", "2", "/", "4", "p", "3", "/",
            "8", "/", "2", "n", "5", "/", "1", "Q", "6", "/", "K", "7", " ", "b">>),
      Str(<<"r", "1", "b", "q", "1", "r", "k", "1", "/",
            "p", "p", "2", "p", "p", "b", "p", "/",
            "2", "n", "p", "1", "n", "p", "1", "/", "8", "/",
            "3", "N", "P", "3", "/", "2", "N", "1", "B", "P", "2", "/",
            "P", "P", "P", "Q", "2", "P", "P", "/",
            "R", "3", "K", "B", "1", "R", " ", "w">>) }

\* The characters an edit writes: the separators, digits, and the letters b
\* (a piece and a side token) and w (a side token and no piece).
EditAlphabet == {Ord(c) : c \in {"/", " ", "8", "1", "b", "w"}}

InitFen ==
    /\ \/ input \in EditTemplates /\ edits = 0
       \/ input \in FixedTexts /\ edits = MaxEdits
    /\ result = None
    /\ done = FALSE
    /\ out = <<>>
    /\ call = [op |-> "none"]
    /\ ret = None
    /\ base = <<>>
    /\ board = <<>>
    /\ last = <<>>
    /\ nwrites = 0

Edited(text) ==
    /\ ~done /\ out = <<>> /\ edits < MaxEdits
    /\ input' = text
    /\ edits' = edits + 1
    /\ UNCHANGED <<call, ret, done, base, board, last, nwrites, out, result>>

Replace ==
    \E i \in 1..Len(input), c \in EditAlphabet :
        Edited([input EXCEPT ![i] = c])

Insert ==
    \E i \in 0..Len(input), c \in EditAlphabet :
        Edited(SubSeq(input, 1, i) \o <<c>> \o SubSeq(input, i + 1, Len(input)))

Delete ==
    \E i \in 1..Len(input) :
        Edited(SubSeq(input, 1, i - 1) \o SubSeq(input, i + 1, Len(input)))

\* The text to decode is the encoding of startpos() with the side field w.
EncodeStartpos ==
    /\ ~done /\ out = <<>> /\ input = <<>>
    /\ out' = Board_to_fen(startpos)
    /\ input' = out' \o Str(<<" ", "w">>)
    /\ UNCHANGED <<call, ret, done, base, board, last, nwrites, edits, result>>

FromStr ==
    /\ ~done
    /\ LET traced == from_str(input)
       IN  /\ result' = traced.result
           /\ last' = traced.writes
    /\ done' = TRUE
    /\ UNCHANGED <<call, ret, base, board, nwrites, out, input, edits>>

NextFen ==
    \/ Replace
    \/ Insert
    \/ Delete
    \/ EncodeStartpos
    \/ FromStr

SpecFen == InitFen /\ [][NextFen]_vars

(***************************************************************************)
(* Claims about Board::from_str.  The fields, groups and cursors of a text *)
(* are stated here by position, apart from the decoder.                    *)
(***************************************************************************)

\* The positions where a whitespace-separated field starts.
FieldStarts(s) ==
    {i \in 1..Len(s) : ~is_whitespace(s[i]) /\ (i = 1 \/ is_whitespace(s[i - 1]))}

\* The field starting at position i: up to the next whitespace or the end.
FieldAt(s, i) ==
    LET stops == {j \in i..Len(s) : is_whitespace(s[j])}
        end == IF stops = {} THEN Len(s)
               ELSE (CHOOSE j \in stops : \A k \in stops : j <= k) - 1
    IN  SubSeq(s, i, end)

\* The n-th field (from 1) of a text with at least n fields.
Field(s, n) ==
    LET starts == FieldStarts(s)
        i == CHOOSE p \in starts : Cardinality({q \in starts : q < p}) = n - 1
    IN  FieldAt(s, i)

Slashes(f) == {i \in 1..Len(f) : f[i] = Ord("/")}

\* The g-th group (from 0) of a rank field with more than g groups.
Group(f, g) ==
    LET cuts == Slashes(f) \cup {0, Len(f) + 1}
        lo == CHOOSE p \in cuts : Cardinality({q \in cuts : q < p}) = g
        hi == CHOOSE p \in cuts : Cardinality({q \in cuts : q < p}) = g + 1
    IN  SubSeq(f, lo + 1, hi - 1)

IsFileDigit(c) == c \in {Ord(d) : d \in {"1", "2", "3", "4", "5", "6", "7", "8"}}

Width(c) == IF IsFileDigit(c) THEN c - Ord("0") ELSE 1

RECURSIVE Cursor(_, _)
\* The file cursor at char i of a group: the widths of the chars before it.
Cursor(group, i) == IF i <= 1 THEN 0 ELSE Cursor(group, i - 1) + Width(group[i - 1])

ExpandsTo8(group) == Cursor(group, Len(group) + 1) = 8

GoodChars(group) == \A i \in 1..Len(group) : IsFileDigit(group[i]) \/ group[i] \in FenLetters

TooFewFields(s) == Cardinality(FieldStarts(s)) < 2

WrongGroupCount(s) == Cardinality(Slashes(Field(s, 1))) + 1 # 8

SomeGroupBad(s) ==
    LET f == Field(s, 1)
    IN  \E g \in 0..Cardinality(Slashes(f)) :
            LET group == Group(f, g)
            IN  ~ExpandsTo8(group) \/ ~GoodChars(group)

BadSide(s) == Field(s, 2) \notin {Str(<<"w">>), Str(<<"b">>)}

Malformed(s) ==
    \/ TooFewFields(s)
    \/ WrongGroupCount(s)
    \/ SomeGroupBad(s)
    \/ BadSide(s)

\* What the slot of index idx holds by the rank field f of a well-formed text.
Placed(f, idx) ==
    LET group == Group(f, 7 - (idx \div 8))
        at == {i \in 1..Len(group) :
                  group[i] \in FenLetters /\ Cursor(group, i) = idx % 8}
    IN  IF at = {} THEN None ELSE Piece_from_fen(group[CHOOSE i \in at : TRUE])

\* C1: a text whose first field has 8 groups of digits 1..8 and piece letters,
\* each expanding to 8 files, and whose second field is w or b, decodes to
\* Ok: the piece of each letter stands on the square of rank 7 - group index
\* and file = its cursor, every other square is empty, and the side to move
\* is White for w and Black for b.  Further fields are ignored.
C1_DecodeWellFormed ==
    (done /\ ~Malformed(input)) =>
        /\ result.tag = "Ok"
        /\ DOMAIN result.v.squares = 0..63
        /\ \A g \in 0..7 :
              LET group == Group(Field(input, 1), g)
              IN  \A i \in 1..Len(group) :
                      group[i] \in FenLetters =>
                          piece_at(result.v, Square_new(7 - g, Cursor(group, i)).v)
                              = Piece_from_fen(group[i])
        /\ \A idx \in 0..63 : result.v.squares[idx] = Placed(Field(input, 1), idx)
        /\ side_to_move(result.v) =
              (IF Field(input, 2) = Str(<<"w">>) THEN "White" ELSE "Black")

C1_Witness ==
    /\ done /\ input = CustomFen
    /\ result.tag = "Ok"
    /\ piece_at(result.v, Square_new(4, 3).v) = Some(Piece_new("Black", "King"))
    /\ piece_at(result.v, Square_new(1, 4).v) = Some(Piece_new("White", "King"))
    /\ Cardinality({idx \in 0..63 : result.v.squares[idx] = None}) = 62
    /\ side_to_move(result.v) = "Black"

\* C2: Board::from_str returns Err, and with it no board, exactly for the
\* texts with fewer than two fields, or a first field that is not 8 groups,
\* or a group that does not expand to 8 files or holds a character that is
\* neither a digit 1..8 nor a piece letter, or a second field that is not w
\* or b; it returns Ok for every other text.
C2_ErrIffMalformed ==
    done =>
        /\ result.tag \in {"Ok", "Err"}
        /\ result.tag = "Err" <=> Malformed(input)
        /\ result.tag = "Err" => DOMAIN result = {"tag", "e"}

C2_Witness ==
    /\ done /\ edits = 1
    /\ ~TooFewFields(input) /\ ~WrongGroupCount(input) /\ ~SomeGroupBad(input)
    /\ BadSide(input)
    /\ result = Err(ParseFenError("Invalid FEN: Invalid side to move", 0))

\* The standard initial position, slot by slot.
StartLayout ==
    [idx \in 0..63 |->
        LET rank == idx \div 8
            file == idx % 8
            back == <<"Rook", "Knight", "Bishop", "Queen", "King", "Bishop", "Knight", "Rook">>
        IN  CASE rank = 0 -> Some(Piece_new("White", back[file + 1]))
              [] rank = 1 -> Some(Piece_new("White", "Pawn"))
              [] rank = 6 -> Some(Piece_new("Black", "Pawn"))
              [] rank = 7 -> Some(Piece_new("Black", back[file + 1]))
              [] OTHER -> None]

\* C3: the FEN of the initial position, with side w, decodes to a board equal
\* to startpos(): White's back rank R N B Q K B N R on rank index 0, White's
\* pawns on 1, Black's pawns on 6, Black's back rank on 7, the ranks between
\* empty, White to move.
C3_StartFenIsStartpos ==
    (done /\ input = StartFen) =>
        /\ result = Ok(startpos)
        /\ result.v.squares = StartLayout
        /\ side_to_move(result.v) = "White"
        /\ side_to_move(startpos) = "White"

C3_Witness ==
    /\ done /\ input = StartFen /\ out = <<>>
    /\ result.tag = "Ok"
    /\ result.v = startpos

\* C10: encoding startpos() to FEN board text and decoding that text, with
\* the side field w, gives a board equal to startpos().
C10_StartposRoundTrip ==
    (done /\ out # <<>> /\ input = out \o Str(<<" ", "w">>)) =>
        /\ out = Board_to_fen(startpos)
        /\ result = Ok(startpos)

C10_Witness ==
    /\ done /\ out = Board_to_fen(startpos)
    /\ input = out \o Str(<<" ", "w">>)
    /\ result = Ok(startpos)

(***************************************************************************)
(* The order of the diagnostics of Board::from_str.                        *)
(***************************************************************************)

WidthFaults(f) == {g \in 0..Cardinality(Slashes(f)) : ~ExpandsTo8(Group(f, g))}

CharFaults(f) == {g \in 0..Cardinality(Slashes(f)) : ~GoodChars(Group(f, g))}

Lowest(S) == CHOOSE g \in S : \A h \in S : g <= h

\* The first character of a group that is neither a digit 1..8 nor a piece
\* letter.
FirstBadChar(group) ==
    group[Lowest({i \in 1..Len(group) :
                     ~IsFileDigit(group[i]) /\ group[i] \notin FenLetters})]

\* The diagnostic that comes first in the order of validation, for a
\* malformed text.
FirstDiagnostic(s) ==
    IF TooFewFields(s) THEN ParseFenError("Invalid FEN: Not enough parts", 0)
    ELSE IF WrongGroupCount(s)
    THEN ParseFenError("Invalid FEN: Incorrect number of ranks", 0)
    ELSE LET f == Field(s, 1)
         IN  IF WidthFaults(f) # {}
             THEN ParseFenError("Invalid FEN: Rank {} does not expand to 8 squares",
                                8 - Lowest(WidthFaults(f)))
             ELSE IF CharFaults(f) # {}
             THEN ParseFenError("Invalid FEN: Unknown piece character '{}'",
                                FirstBadChar(Group(f, Lowest(CharFaults(f)))))
             ELSE ParseFenError("Invalid FEN: Invalid side to move", 0)

\* C11: for a text that violates several conditions, Board::from_str returns
\* the diagnostic of the first violated one in the order: fewer than two
\* fields; not 8 groups; a group that does not expand to 8 files, the
\* lowest-index one, found before any piece is placed; an unknown piece
\* character, group by group from the top; the side token.  So a width error
\* in any group wins over an unknown character in an earlier group, and the
\* side token is reported only when the whole rank field is valid.
C11_DiagnosticOrder ==
    (done /\ Malformed(input)) =>
        /\ result = Err(FirstDiagnostic(input))
        /\ result.e.msg \in {"Invalid FEN: Not enough parts",
                              "Invalid FEN: Incorrect number of ranks",
                              "Invalid FEN: Rank {} does not expand to 8 squares"}
              => last = <<>>
        /\ (~TooFewFields(input) /\ ~WrongGroupCount(input)
                /\ WidthFaults(Field(input, 1)) # {})
              => result.e.msg = "Invalid FEN: Rank {} does not expand to 8 squares"
        /\ result.e.msg = "Invalid FEN: Invalid side to move"
              => (~WrongGroupCount(input) /\ ~SomeGroupBad(input))

\* An unknown character in the top group, a later group that is too narrow
\* and a bad side token: the width error of the later group is returned.
C11_Witness ==
    /\ done /\ ~TooFewFields(input) /\ ~WrongGroupCount(input)
    /\ 0 \in CharFaults(Field(input, 1))
    /\ WidthFaults(Field(input, 1)) = {3}
    /\ BadSide(input)
    /\ result = Err(ParseFenError("Invalid FEN: Rank {} does not expand to 8 squares", 5))
    /\ last = <<>>

(***************************************************************************)
(* The two diagnostics of the placement pass about the file cursor.        *)
(***************************************************************************)

\* The walk of a group finds the cursor past file 7 before some character.
Overflows(group) == \E i \in 1..Len(group) : Cursor(group, i) > 7

\* The walk of a group ends with the cursor off 8.
EndsOff8(group) == Cursor(group, Len(group) + 1) # 8

\* The rank field has exactly one faulty group, g, and its characters are
\* all digits 1..8 and piece letters.
OnlyCursorFault(s, g) ==
    /\ ~TooFewFields(s) /\ ~WrongGroupCount(s) /\ ~BadSide(s)
    /\ CharFaults(Field(s, 1)) = {}
    /\ WidthFaults(Field(s, 1)) = {g}

\* C12 as stated: a group whose placement overflows past file 8 is rejected
\* with "Too many squares in rank N", and a group whose placement ends with
\* the cursor off 8 (without overflowing) with "Rank N does not end on
\* file 8".
C12_PlacementDiagnostics ==
    done =>
        \A g \in 0..7 :
            OnlyCursorFault(input, g) =>
                LET group == Group(Field(input, 1), g)
                IN  result =
                        IF Overflows(group)
                        THEN Err(ParseFenError("Invalid FEN: Too many squares in rank {}",
                                               8 - g))
                        ELSE Err(ParseFenError("Invalid FEN: Rank {} does not end on file 8",
                                               8 - g))

\* C12, amended: Board::from_str returns neither "Too many squares in rank
\* N" nor "Rank N does not end on file 8" for any text; a text with two
\* fields and 8 groups that has a group whose placement would overflow past
\* file 8 or end with the cursor off 8 is rejected by the width pass, with
\* "Rank N does not expand to 8 squares" for the lowest-index group that
\* does not expand to 8 files, and with no piece placed.
C12_CursorFaultsCaughtByWidthPass ==
    done =>
        /\ result.tag = "Err" =>
               result.e.msg \notin {"Invalid FEN: Too many squares in rank {}",
                                    "Invalid FEN: Rank {} does not end on file 8"}
        /\ (~TooFewFields(input) /\ ~WrongGroupCount(input)
               /\ \E g \in 0..7 : LET group == Group(Field(input, 1), g)
                                  IN  Overflows(group) \/ EndsOff8(group))
             => /\ result =
                      Err(ParseFenError("Invalid FEN: Rank {} does not expand to 8 squares",
                                        8 - Lowest(WidthFaults(Field(input, 1)))))
                /\ last = <<>>

\* A text whose only fault is a group that overflows past file 8.
C12_Witness ==
    /\ done
    /\ \E g \in 0..7 :
          /\ OnlyCursorFault(input, g)
          /\ Overflows(Group(Field(input, 1), g))
          /\ result = Err(ParseFenError("Invalid FEN: Rank {} does not expand to 8 squares",
                                        8 - g))

(***************************************************************************)
(* The placements of one decode.                                           *)
(***************************************************************************)

\* C13: Board::from_str returns Ok or Err for every text, and at every piece
\* placement the group index and the file cursor are in 0..7, so that
\* 7 - rank_index as u8 does not underflow, file_index as u8 does not
\* truncate, the square is constructed ("Square out of bounds" is never
\* returned), the slot written is in 0..63, and no slot is written twice in
\* one decode.
C13_PlacementsInBounds ==
    done =>
        /\ result.tag \in {"Ok", "Err"}
        /\ result.tag = "Err" => result.e.msg # "Invalid FEN: Square out of bounds"
        /\ \A k \in 1..Len(last) :
              /\ last[k].rank_index \in 0..7
              /\ last[k].file_index \in 0..7
              /\ last[k].rank_as_u8 = last[k].rank_index
              /\ last[k].rank \in 0..7
              /\ last[k].file_as_u8 = last[k].file_index
              /\ last[k].index = last[k].rank * 8 + last[k].file_index
              /\ last[k].index \in 0..63
        /\ \A j, k \in 1..Len(last) : j # k => last[j].index # last[k].index
        /\ result.tag = "Ok" =>
               \A idx \in 0..63 :
                   result.v.squares[idx] # None <=>
                       \E k \in 1..Len(last) : last[k].index = idx

\* The decode of the start position: 32 placements, on the two top and the
\* two bottom ranks, the first on a8 and the last on h1.
C13_Witness ==
    /\ done /\ input = StartFen /\ result.tag = "Ok"
    /\ Len(last) = 32
    /\ {last[k].index : k \in 1..Len(last)} = (0..15) \cup (48..63)
    /\ last[1].rank_index = 0 /\ last[1].file_index = 0 /\ last[1].index = 56
    /\ last[32].rank_index = 7 /\ last[32].file_index = 7 /\ last[32].index = 7

====
